---- MODULE Spec2Model ----
(***************************************************************************)
(* Controlled Chaos: the application controller (app.ts), the task         *)
(* grouping of the presentation layer (ui.ts), the local store             *)
(* (storage.ts) and the hosted store (db.ts), as a state machine.          *)
(*                                                                         *)
(* Time is counted in hours since the epoch (UTC).  A calendar date, as    *)
(* held in Task.dueDate ("2025-12-10"), is a day number; a time of day, as *)
(* held in Task.dueTime ("14:00"), is the sequence of its four digits, so  *)
(* that string comparison is modelled as string comparison.  An absent     *)
(* (null or empty, i.e. falsy) date or time is the empty sequence.         *)
(***************************************************************************)
EXTENDS Integers, Sequences, FiniteSets, TLC

VARIABLES
    tasks,                  \* state.tasks: sequence of Task objects
    chatHistory,            \* state.chatHistory: sequence of ChatMessage
    settings,               \* state.settings
    defaultTasks,           \* DEFAULT_STATE.tasks (an array that load() hands out by reference)
    defaultChat,            \* DEFAULT_STATE.chatHistory (likewise)
    defaultSettings,        \* DEFAULT_STATE.settings (likewise)
    aliased,                \* the fields of state that are the very objects of DEFAULT_STATE
    localStore,             \* localStorage['controlled-chaos-state'], or NoRecord
    currentUser,            \* auth.ts: the signed-in user, or NoUser
    cloudTasks,             \* hosted store: the rows of table tasks of that user
    cloudChat,              \* hosted store: the rows of table chat_messages
    cloudSettings,          \* hosted store: the row of table user_settings, if any
    cloudOps,               \* hosted writes on their way (fire and forget)
    authRun,                \* the handleAuthChange call that is waiting on the hosted store
    timers,                 \* pending setTimeout callbacks of toggleTask, in firing order
    pendingProposedTasks,   \* the module-level batch awaiting confirmation
    taskModalOpen,          \* #task-modal is not hidden
    proposedChecks,         \* the checkboxes of #proposed-tasks (checked or not)
    chatLoading,            \* chat input, send and what-now buttons are disabled
    relayCalls,             \* outstanding fetches of /api/chat, each with the user message it was made for
    recommended,            \* id carried by the .task-item.recommended element, or NoId
    appliedTheme,           \* data-theme attribute of the document
    now,                    \* the instant new Date() returns, hours since the epoch (UTC)
    tz,                     \* local time-zone offset of the browser, hours east of UTC
    taskGroups,             \* what renderTasks last put into #task-groups
    initialized,            \* init() has run: first render done, listeners attached
    events,                 \* history: events from outside so far
    toggleRequests,         \* history: calls of toggleTask that found their task
    detachedToggles,        \* history: timers that fired for a task no longer in state.tasks
    completedFlips,         \* history: changes of a collection task's completed flag by a toggle
    flipSaves,              \* history: saveAndRender calls of toggleTask on a collection task
    migrationRuns,          \* history: the requests of each migration that went past its check
    deletedWhileToggling,   \* history: ids deleted while a timer of toggleTask held a task of that id
    replacedWhileToggling,  \* history: ids a timer of toggleTask held when state was replaced
    lastOp,                 \* history: the handler or continuation that ran last
    effects                 \* history: the writes to the local store and the renders that
                            \* handler made, in the order of its statements

stateVars   == <<tasks, chatHistory, settings>>
defaultVars == <<defaultTasks, defaultChat, defaultSettings, aliased>>
cloudVars   == <<currentUser, cloudTasks, cloudChat, cloudSettings, authRun>>
modalVars   == <<pendingProposedTasks, taskModalOpen, proposedChecks>>
relayVars   == <<chatLoading, relayCalls>>
domVars     == <<recommended, appliedTheme, taskGroups>>
envVars     == <<now, tz>>
historyVars == <<toggleRequests, detachedToggles, completedFlips, flipSaves, migrationRuns>>
raceVars    == <<deletedWhileToggling, replacedWhileToggling>>


vars == <<stateVars, defaultVars, localStore, cloudVars, cloudOps, timers, modalVars,
          relayVars, domVars, envVars, initialized, events, historyVars, raceVars,
          lastOp, effects>>

----------------------------------------------------------------------------
(* Bounds of the model *)

MaxGroupTasks == 2      \* longest task list drawn as input of the grouping
MaxDeleteTasks == 3     \* longest task list drawn as input of deleteTask
MaxStoredChat == 11     \* longest chat history a session starts on
MaxEvents == 3          \* events from outside (user input, clock, auth change) in a session

----------------------------------------------------------------------------
(* Sequences *)

Range(s) == {s[i] : i \in 1..Len(s)}

Count(s, x) == Cardinality({i \in 1..Len(s) : s[i] = x})

----------------------------------------------------------------------------
(* Dates and times *)

HoursPerDay == 24

NoDate == <<>>
NoTime == <<>>

\* The calendar day an instant falls on in local time (getFullYear/getMonth/getDate).
LocalDate(t, offset) == (t + offset) \div HoursPerDay

\* new Date(y, m, d): local midnight of a calendar day, as an instant.
LocalMidnight(day, offset) == day * HoursPerDay - offset

\* new Date("YYYY-MM-DD"): a date-only ISO string is parsed as UTC midnight.
ParseDate(dueDate) == dueDate[1] * HoursPerDay

\* Minutes since midnight that an "HH:MM" string denotes.
TimeValue(t) == (t[1] * 10 + t[2]) * 60 + t[3] * 10 + t[4]

\* String.prototype.localeCompare on digit strings: -1, 0 or 1.
RECURSIVE localeCompare(_, _)
localeCompare(a, b) ==
    IF a = <<>> /\ b = <<>> THEN 0
    ELSE IF a = <<>> THEN -1
    ELSE IF b = <<>> THEN 1
    ELSE IF a[1] < b[1] THEN -1
    ELSE IF a[1] > b[1] THEN 1
    ELSE localeCompare(Tail(a), Tail(b))

----------------------------------------------------------------------------
(* ui.ts: groupTasksByDate *)

\* A comparator that puts the tasks without a dueTime first.
compareTasksUntimedFirst(a, b) ==
    IF a.dueTime # NoTime /\ b.dueTime # NoTime THEN localeCompare(a.dueTime, b.dueTime)
    ELSE IF a.dueTime # NoTime THEN 1
    ELSE IF b.dueTime # NoTime THEN -1
    ELSE a.createdAt - b.createdAt

\* The comparator handed to Array.prototype.sort.
compareTasks(a, b) ==
    IF a.dueTime # NoTime /\ b.dueTime # NoTime THEN localeCompare(a.dueTime, b.dueTime)
    ELSE IF a.dueTime # NoTime THEN -1
    ELSE IF b.dueTime # NoTime THEN 1
    ELSE a.createdAt - b.createdAt

\* Array.prototype.sort is stable: an element moves left only past elements
\* that compare strictly greater.
insertSorted(s, x) ==
    LET le == {i \in 1..Len(s) : compareTasks(s[i], x) <= 0}
        k  == IF le = {} THEN 0 ELSE CHOOSE i \in le : \A j \in le : j <= i
    IN  SubSeq(s, 1, k) \o <<x>> \o SubSeq(s, k + 1, Len(s))

RECURSIVE sortTasks(_)
sortTasks(s) ==
    IF s = <<>> THEN <<>>
    ELSE insertSorted(sortTasks(SubSeq(s, 1, Len(s) - 1)), s[Len(s)])

\* The bucket the forEach body pushes a task into.
bucketOf(task, t, offset) ==
    LET today     == LocalMidnight(LocalDate(t, offset), offset)
        tomorrow  == today + HoursPerDay
        endOfWeek == today + 7 * HoursPerDay
    IN  IF task.dueDate = NoDate THEN "later"
        ELSE LET dueDate     == ParseDate(task.dueDate)
                 dueDateOnly == LocalMidnight(LocalDate(dueDate, offset), offset)
             IN  IF dueDateOnly = today THEN "today"
                 ELSE IF dueDateOnly = tomorrow THEN "tomorrow"
                 ELSE IF dueDateOnly <= endOfWeek /\ dueDateOnly > tomorrow THEN "thisWeek"
                 ELSE "later"

GroupKeys == {"today", "tomorrow", "thisWeek", "later"}

\* A grouping that skips no completed task.
groupTasksByDateUnfiltered(ts, t, offset) ==
    [k \in GroupKeys |-> sortTasks(SelectSeq(ts, LAMBDA x : bucketOf(x, t, offset) = k))]

\* A grouping whose forEach body does not return after pushing a task without a
\* dueDate into later, and goes on to classify it.
groupTasksByDateNoReturn(ts, t, offset) ==
    LET incomplete == SelectSeq(ts, LAMBDA x : ~x.completed)
    IN  [k \in GroupKeys |->
            sortTasks(SelectSeq(incomplete, LAMBDA x : bucketOf(x, t, offset) = k)
                      \o (IF k = "later"
                          THEN SelectSeq(incomplete, LAMBDA x : x.dueDate = NoDate)
                          ELSE <<>>))]

groupTasksByDate(ts, t, offset) ==
    LET incomplete == SelectSeq(ts, LAMBDA x : ~x.completed)
    IN  [k \in GroupKeys |->
            sortTasks(SelectSeq(incomplete, LAMBDA x : bucketOf(x, t, offset) = k))]

EmptyGroups == [k \in GroupKeys |-> <<>>]

----------------------------------------------------------------------------
(* types.ts: the values of the data model *)

NoId == <<>>
NoText == <<"", 0>>

\* A Task object; obj is the identity of the JavaScript object (0 in a serialized copy).
MkTask(obj, id, title, dueDate, dueTime, category, completed, createdAt) ==
    [obj |-> obj, id |-> id, title |-> title, dueDate |-> dueDate, dueTime |-> dueTime,
     category |-> category, completed |-> completed, createdAt |-> createdAt]

MkProposed(title, dueDate, dueTime, category) ==
    [title |-> title, dueDate |-> dueDate, dueTime |-> dueTime, category |-> category]

MkMessage(id, role, content, timestamp) ==
    [id |-> id, role |-> role, content |-> content, timestamp |-> timestamp]

----------------------------------------------------------------------------
(* Input domains *)

\* Two instants of one UTC day: early in the morning and late in the evening.
Nows == {100 * HoursPerDay + 2, 100 * HoursPerDay + 21}
TzOffsets == {-5, 0, 9}
DueDateOffsets == {-1, 0, 1, 2, 7, 8}
DueTimes == {NoTime, <<0, 9, 3, 0>>, <<1, 4, 0, 0>>}
CreatedAts == {1, 2}

DueDatesAt(t, offset) == {NoDate} \cup {<<LocalDate(t, offset) + k>> : k \in DueDateOffsets}

\* The task lists the grouping is applied to.
GroupInputs(t, offset) ==
    UNION {{ [i \in 1..n |->
                 MkTask(i, <<i, 1>>, "t", f[i][1], f[i][2], "life", f[i][3], f[i][4])] :
               f \in [1..n -> DueDatesAt(t, offset) \X DueTimes \X BOOLEAN \X CreatedAts] } :
           n \in 0..MaxGroupTasks}

\* The session of the controller starts at this instant, in this time zone.
SessionStart == CHOOSE t \in Nows : \A u \in Nows : t <= u
SessionTz == CHOOSE offset \in TzOffsets : offset = 0
SessionDay == LocalDate(SessionStart, SessionTz)

\* What the add-task form can hold at submission (title already trimmed).
FormInputs ==
    { [title |-> "", dueDate |-> NoDate, dueTime |-> NoTime, category |-> "life"],
      [title |-> "essay", dueDate |-> NoDate, dueTime |-> NoTime, category |-> "school"],
      [title |-> "call", dueDate |-> <<SessionDay>>, dueTime |-> <<1, 4, 0, 0>>, category |-> "life"] }

\* The text in the chat input is opaque to the controller; here the user types the
\* words the what-now button sends.
UserText == <<"What should I do right now?", 0>>
WhatNowText == <<"What should I do right now?", 0>>
ReplyText == <<"sure", 0>>
PlanText == <<"here is a plan", 0>>
FallbackText == <<"Sorry, I had trouble processing that. Please try again.", 0>>
AddedText(n) == <<"Added tasks. What would you like to tackle first?", n>>

BatchA == << MkProposed("read", NoDate, NoTime, "school") >>
BatchB == << MkProposed("shop", <<SessionDay + 1>>, <<0, 9, 3, 0>>, "life"),
             MkProposed("mail", NoDate, NoTime, "work") >>
\* The tool schema asks for a title that is a string; nothing asks for more.
BatchC == << MkProposed("", NoDate, NoTime, "life") >>

ProposeCall(batch) == [name |-> "propose_tasks", tasks |-> batch, taskId |-> NoId]
RecommendCall(id) == [name |-> "get_recommendation", tasks |-> <<>>, taskId |-> id]

FailedReply == [ok |-> FALSE, message |-> NoText, toolCalls |-> <<>>]
OkReply(message, toolCalls) == [ok |-> TRUE, message |-> message, toolCalls |-> toolCalls]

\* An id no task has.
BogusId == <<0, 0>>

\* The outcomes of a relay call: it throws, or it returns a decoded reply that may
\* recommend one of the ids in ids.
Replies(ids) ==
    { FailedReply,
      OkReply(ReplyText, <<>>),
      OkReply(PlanText, <<ProposeCall(BatchA)>>),
      OkReply(NoText, <<ProposeCall(BatchB)>>),
      OkReply(NoText, <<ProposeCall(BatchC)>>) }
    \cup { OkReply(ReplyText, <<RecommendCall(id)>>) : id \in ids \cup {BogusId} }

----------------------------------------------------------------------------
(* storage.ts *)

NoRecord == <<>>

StripObjs(ts) == [i \in 1..Len(ts) |-> [ts[i] EXCEPT !.obj = 0]]

\* JSON.stringify(state), as the value localStorage then holds.
save(ts, ch, st) == << [tasks |-> StripObjs(ts), chatHistory |-> ch, settings |-> st] >>

\* The n smallest object identities not in use.
RECURSIVE FreshObjs(_, _)
FreshObjs(used, n) ==
    IF n = 0 THEN <<>>
    ELSE LET o == CHOOSE k \in 1..(Cardinality(used) + 1) :
                      k \notin used /\ \A j \in 1..(k - 1) : j \in used
         IN  <<o>> \o FreshObjs(used \cup {o}, n - 1)

\* JSON.parse makes new objects.
Revive(ts, used) ==
    LET objs == FreshObjs(used, Len(ts))
    IN  [i \in 1..Len(ts) |-> [ts[i] EXCEPT !.obj = objs[i]]]

\* A merge in which the defaults win: { ...parsed.settings, ...DEFAULT_STATE.settings }
MergeSettingsDefaultsWin(d, pd) ==
    [k \in DOMAIN d \cup DOMAIN pd |-> IF k \in DOMAIN d THEN d[k] ELSE pd[k]]

\* { ...DEFAULT_STATE.settings, ...parsed.settings }
MergeSettings(d, pd) ==
    [k \in DOMAIN d \cup DOMAIN pd |-> IF k \in DOMAIN pd THEN pd[k] ELSE d[k]]

AllFields == {"tasks", "chatHistory", "settings"}

\* Storage.load(): the loaded state, and which of its fields are DEFAULT_STATE's own.
load(store, used) ==
    IF store = NoRecord
    THEN [tasks |-> defaultTasks, chatHistory |-> defaultChat, settings |-> defaultSettings,
          aliased |-> AllFields]
    ELSE [tasks |-> Revive(store[1].tasks, used), chatHistory |-> store[1].chatHistory,
          settings |-> MergeSettings(defaultSettings, store[1].settings), aliased |-> {}]

\* Storage.generateId(): `${Date.now()}-${Math.random().toString(36).substring(2, 9)}`.
\* Only which ids are equal matters, so the random suffixes are numbered in order
\* of first appearance within one instant.
generateId(t, r) == <<t, r>>

SuffixesAt(used, t) == {id[2] : id \in {x \in used : x[1] = t}}

\* A suffix no id of this instant has.
FreshSuffix(used, t) ==
    CHOOSE r \in 1..(Cardinality(SuffixesAt(used, t)) + 1) :
        r \notin SuffixesAt(used, t) /\ \A q \in 1..(r - 1) : q \in SuffixesAt(used, t)

\* What Math.random can yield, up to renaming: a suffix already drawn at this
\* instant, or a new one.
RandSuffixes(used, t) == SuffixesAt(used, t) \cup {FreshSuffix(used, t)}

\* The suffixes of n ids generated one after the other at the same instant.
RECURSIVE RandSuffixSeqs(_, _, _)
RandSuffixSeqs(used, t, n) ==
    IF n = 0 THEN {<<>>}
    ELSE UNION {{<<r>> \o rest : rest \in RandSuffixSeqs(used \cup {<<t, r>>}, t, n - 1)} :
                r \in RandSuffixes(used, t)}

----------------------------------------------------------------------------
(* api.ts *)

extractProposedTasks(toolCalls) ==
    LET hits == {i \in 1..Len(toolCalls) : toolCalls[i].name = "propose_tasks"}
    IN  IF hits = {} THEN <<>>
        ELSE toolCalls[CHOOSE i \in hits : \A j \in hits : i <= j].tasks

extractRecommendation(toolCalls) ==
    LET hits == {i \in 1..Len(toolCalls) :
                    toolCalls[i].name = "get_recommendation" /\ toolCalls[i].taskId # NoId}
    IN  IF hits = {} THEN NoId
        ELSE toolCalls[CHOOSE i \in hits : \A j \in hits : i <= j].taskId

----------------------------------------------------------------------------
(* auth.ts and db.ts: the hosted store *)

NoUser == "none"
TheUser == "u1"
NoRun == <<>>
NoSettings == <<>>

\* The requests db.ts sends; row is what the request carries.
UpsertTask(task) == [kind |-> "upsertTask", row |-> [task EXCEPT !.obj = 0]]
DeleteTaskRow(id) == [kind |-> "deleteTask", row |-> [id |-> id]]
InsertChat(message) == [kind |-> "insertChat", row |-> message]
UpsertSettings(st) == [kind |-> "upsertSettings", row |-> st]

\* saveTask, deleteTask, saveChatMessage and saveSettings return at once when no
\* user is signed in; otherwise the request leaves.
Sent(ops) == IF currentUser = NoUser THEN cloudOps ELSE cloudOps \cup ops

\* The tables after a request has been carried out.
tasksTableAfter(rows, op) ==
    IF op.kind = "upsertTask" THEN {x \in rows : x.id # op.row.id} \cup {op.row}
    ELSE IF op.kind = "deleteTask" THEN {x \in rows : x.id # op.row.id}
    ELSE rows

chatTableAfter(rows, op) ==
    IF op.kind = "insertChat" /\ op.row.id \notin {x.id : x \in rows}
    THEN rows \cup {op.row} ELSE rows

settingsRowAfter(row, op) == IF op.kind = "upsertSettings" THEN <<op.row>> ELSE row

RECURSIVE tablesAfterAll(_, _)
tablesAfterAll(tables, ops) ==
    IF ops = <<>> THEN tables
    ELSE tablesAfterAll([tasks    |-> tasksTableAfter(tables.tasks, Head(ops)),
                         chat     |-> chatTableAfter(tables.chat, Head(ops)),
                         settings |-> settingsRowAfter(tables.settings, Head(ops))],
                        Tail(ops))

\* select ... order by key ascending: every order of the rows that ascends in key.
Ordered(rows, key) ==
    {q \in [1..Cardinality(rows) -> rows] :
        /\ \A i, j \in 1..Cardinality(rows) : i # j => q[i] # q[j]
        /\ \A i, j \in 1..Cardinality(rows) : i < j => q[i][key] <= q[j][key]}

\* The hosted write op reaches the store (ok), or fails and is only logged.
cloudOpCompletes(op, ok) ==
    /\ lastOp' = "cloud"
    /\ effects' = <<>>
    /\ cloudOps' = cloudOps \ {op}
    /\ cloudTasks' = IF ok THEN tasksTableAfter(cloudTasks, op) ELSE cloudTasks
    /\ cloudChat' = IF ok THEN chatTableAfter(cloudChat, op) ELSE cloudChat
    /\ cloudSettings' = IF ok THEN settingsRowAfter(cloudSettings, op) ELSE cloudSettings
    /\ UNCHANGED <<stateVars, defaultVars, localStore, currentUser, authRun, timers, modalVars,
                   relayVars, domVars, envVars, initialized, events, historyVars, raceVars>>

CloudOpCompletes == \E op \in cloudOps, ok \in BOOLEAN : cloudOpCompletes(op, ok)

\* A hosted store that carries out every write.
CloudOpSucceeds == \E op \in cloudOps : cloudOpCompletes(op, TRUE)

----------------------------------------------------------------------------
(* app.ts: helpers *)

AllGrouped ==
    taskGroups["today"] \o taskGroups["tomorrow"] \o taskGroups["thisWeek"] \o taskGroups["later"]

\* The ids that have a .task-item element (with its checkbox and delete button).
RenderedIds == {x.id : x \in Range(AllGrouped)}

ObjsOf(ts) == {x.obj : x \in Range(ts)}

LiveObjs == ObjsOf(tasks) \cup ObjsOf(defaultTasks) \cup ObjsOf(timers)

IdsOf(xs) == {x.id : x \in Range(xs)}

\* The task ids and the message ids that exist anywhere in the system.
TaskIds ==
    IdsOf(tasks) \cup IdsOf(defaultTasks) \cup IdsOf(timers) \cup RenderedIds
    \cup (IF localStore = NoRecord THEN {} ELSE IdsOf(localStore[1].tasks))
    \cup {x.id : x \in cloudTasks}
    \cup {op.row.id : op \in {o \in cloudOps : o.kind \in {"upsertTask", "deleteTask"}}}
    \cup (IF authRun = NoRun THEN {} ELSE IdsOf(authRun[1].localData.tasks))

MessageIds ==
    IdsOf(chatHistory) \cup IdsOf(defaultChat) \cup {c.msg.id : c \in Range(relayCalls)}
    \cup (IF localStore = NoRecord THEN {} ELSE IdsOf(localStore[1].chatHistory))
    \cup {x.id : x \in cloudChat}
    \cup {op.row.id : op \in {o \in cloudOps : o.kind = "insertChat"}}
    \cup (IF authRun = NoRun THEN {} ELSE IdsOf(authRun[1].localData.chatHistory))

\* task.completed = v on the object obj, seen through every array that holds it.
SetCompleted(ts, obj, v) ==
    [i \in 1..Len(ts) |-> IF ts[i].obj = obj THEN [ts[i] EXCEPT !.completed = v] ELSE ts[i]]

\* state.tasks.find(t => t.id === id): its index, 0 when there is none.
findTask(ts, id) ==
    LET hits == {i \in 1..Len(ts) : ts[i].id = id}
    IN  IF hits = {} THEN 0 ELSE CHOOSE i \in hits : \A j \in hits : i <= j

\* The Task that addTask builds from its argument.
newTask(obj, data, r) ==
    MkTask(obj, generateId(now, r), data.title, data.dueDate, data.dueTime, data.category,
           FALSE, now)

\* The ChatMessage that addChatMessage builds.
newMessage(role, content, r) == MkMessage(generateId(now, r), role, content, now)

\* The suffix of a message id: a collision of message ids is not followed up.
MessageSuffix == FreshSuffix(MessageIds, now)

\* An array after push, and DEFAULT_STATE's array when it is the same array.
Pushed(field, default, xs) == IF field \in aliased THEN default \o xs ELSE default

\* saveAndRender: saveState(), then UI.renderTasks.
saveAndRender == <<"save", "renderTasks">>

\* addChatMessage: Storage.save, then UI.renderChatMessages.
saveAndRenderChat == <<"save", "renderChat">>

\* An event from outside is counted against the length of the session.
Event == events < MaxEvents /\ events' = events + 1

----------------------------------------------------------------------------
(* app.ts: init -- the first render *)

AppInit ==
    /\ lastOp' = "init"
    /\ effects' = <<"applyTheme", "renderTasks", "renderChat">>
    /\ ~initialized
    /\ initialized' = TRUE
    /\ appliedTheme' = settings.theme
    /\ taskGroups' = groupTasksByDate(tasks, now, tz)
    /\ UNCHANGED <<stateVars, defaultVars, localStore, cloudVars, cloudOps, timers, modalVars,
                   relayVars, recommended, envVars, events, historyVars, raceVars>>

----------------------------------------------------------------------------
(* app.ts: task handlers *)

\* handleAddTaskSubmit -> addTask -> saveAndRender
HandleAddTaskSubmit ==
    /\ initialized
    /\ \E form \in FormInputs, r \in RandSuffixes(TaskIds, now) :
          IF form.title = ""
          THEN UNCHANGED vars
          ELSE /\ Event
               /\ lastOp' = "addTask"
               /\ effects' = saveAndRender
               /\ LET task == newTask(FreshObjs(LiveObjs, 1)[1], form, r)
                  IN  /\ tasks' = Append(tasks, task)
                      /\ defaultTasks' = Pushed("tasks", defaultTasks, <<task>>)
                      /\ localStore' = save(tasks', chatHistory, settings)
                      /\ taskGroups' = groupTasksByDate(tasks', now, tz)
                      /\ recommended' = NoId
                      /\ cloudOps' = Sent({UpsertTask(task)})
               /\ UNCHANGED <<chatHistory, settings, defaultChat, defaultSettings, aliased,
                              cloudVars, timers, modalVars, relayVars, appliedTheme, envVars,
                              initialized, historyVars, raceVars>>

\* A toggleTask that takes the animated path whatever the flag is.
toggleTaskAlwaysDelayed(id) ==
    /\ lastOp' = "toggleTask"
    /\ effects' = <<>>
    /\ LET i == findTask(tasks, id)
       IN  IF i = 0
           THEN UNCHANGED <<stateVars, defaultVars, localStore, cloudOps, timers, domVars,
                            historyVars, raceVars>>
           ELSE /\ toggleRequests' = toggleRequests + 1
                /\ timers' = Append(timers, tasks[i])
                /\ UNCHANGED <<stateVars, defaultVars, localStore, cloudOps, domVars,
                               detachedToggles, completedFlips, flipSaves, migrationRuns, raceVars>>
    /\ UNCHANGED <<cloudVars, modalVars, relayVars, envVars, initialized>>

\* toggleTask(id): nothing when no task has the id; a timer when the task found is
\* incomplete and has an element; otherwise the flag is flipped, saved and
\* rendered at once.
toggleTask(id) ==
    /\ lastOp' = "toggleTask"
    /\ effects' = LET i == findTask(tasks, id)
                  IN  IF i # 0 /\ ~(~tasks[i].completed /\ id \in RenderedIds)
                      THEN saveAndRender ELSE <<>>
    /\ LET i == findTask(tasks, id)
       IN  IF i = 0
           THEN UNCHANGED <<stateVars, defaultVars, localStore, cloudOps, timers, domVars,
                            historyVars, raceVars>>
           ELSE /\ toggleRequests' = toggleRequests + 1
                /\ IF ~tasks[i].completed /\ id \in RenderedIds
                   THEN /\ timers' = Append(timers, tasks[i])
                        /\ UNCHANGED <<stateVars, defaultVars, localStore, cloudOps, domVars,
                                       detachedToggles, completedFlips, flipSaves, migrationRuns, raceVars>>
                   ELSE /\ tasks' = SetCompleted(tasks, tasks[i].obj, ~tasks[i].completed)
                        /\ defaultTasks' = SetCompleted(defaultTasks, tasks[i].obj, ~tasks[i].completed)
                        /\ timers' = SetCompleted(timers, tasks[i].obj, ~tasks[i].completed)
                        /\ localStore' = save(tasks', chatHistory, settings)
                        /\ taskGroups' = groupTasksByDate(tasks', now, tz)
                        /\ recommended' = NoId
                        /\ cloudOps' = Sent({UpsertTask(tasks'[i])})
                        /\ completedFlips' = completedFlips + 1
                        /\ flipSaves' = flipSaves + 1
                        /\ UNCHANGED <<chatHistory, settings, defaultChat, defaultSettings,
                                       aliased, appliedTheme, detachedToggles, migrationRuns, raceVars>>
    /\ UNCHANGED <<cloudVars, modalVars, relayVars, envVars, initialized>>

\* handleTaskClick on a checkbox -> toggleTask
HandleCheckboxClick ==
    /\ initialized
    /\ Event
    /\ \E id \in RenderedIds : toggleTask(id)

\* The callback toggleTask handed to setTimeout, 500 ms later.
CompletionTimerFires ==
    /\ lastOp' = "timer"
    /\ effects' = saveAndRender
    /\ timers # <<>>
    /\ LET task     == Head(timers)
           attached == task.obj \in ObjsOf(tasks)
       IN  /\ tasks' = SetCompleted(tasks, task.obj, TRUE)
           /\ defaultTasks' = SetCompleted(defaultTasks, task.obj, TRUE)
           /\ timers' = SetCompleted(Tail(timers), task.obj, TRUE)
           /\ localStore' = save(tasks', chatHistory, settings)
           /\ taskGroups' = groupTasksByDate(tasks', now, tz)
           /\ recommended' = NoId
           /\ cloudOps' = Sent({UpsertTask([task EXCEPT !.completed = TRUE])})
           /\ detachedToggles' = IF attached THEN detachedToggles ELSE detachedToggles + 1
           /\ completedFlips' = IF attached /\ ~task.completed THEN completedFlips + 1
                                ELSE completedFlips
           /\ flipSaves' = IF attached THEN flipSaves + 1 ELSE flipSaves
    /\ UNCHANGED <<chatHistory, settings, defaultChat, defaultSettings, aliased, cloudVars,
                   modalVars,
                   relayVars, appliedTheme, envVars, initialized, events, toggleRequests,
                   migrationRuns, raceVars>>

\* A deleteTask that removes with splice(findIndex(...), 1): an id that is not in
\* the collection removes its last task.
deleteTaskSplice(id) ==
    /\ lastOp' = "deleteTask"
    /\ effects' = saveAndRender
    /\ LET i == findTask(tasks, id)
           k == IF i = 0 THEN Len(tasks) ELSE i
       IN  tasks' = SubSeq(tasks, 1, k - 1) \o SubSeq(tasks, k + 1, Len(tasks))
    /\ aliased' = aliased \ {"tasks"}
    /\ localStore' = save(tasks', chatHistory, settings)
    /\ taskGroups' = groupTasksByDate(tasks', now, tz)
    /\ recommended' = NoId
    /\ cloudOps' = Sent({DeleteTaskRow(id)})
    /\ deletedWhileToggling' = IF id \in IdsOf(timers) THEN deletedWhileToggling \cup {id}
                               ELSE deletedWhileToggling
    /\ UNCHANGED <<chatHistory, settings, defaultTasks, defaultChat, defaultSettings,
                   cloudVars, timers, modalVars, relayVars, appliedTheme, envVars,
                   initialized, historyVars, replacedWhileToggling>>

\* deleteTask(id): filter, saveAndRender, DB.deleteTask
deleteTask(id) ==
    /\ lastOp' = "deleteTask"
    /\ effects' = saveAndRender
    /\ tasks' = SelectSeq(tasks, LAMBDA x : x.id # id)
    /\ aliased' = aliased \ {"tasks"}
    /\ localStore' = save(tasks', chatHistory, settings)
    /\ taskGroups' = groupTasksByDate(tasks', now, tz)
    /\ recommended' = NoId
    /\ cloudOps' = Sent({DeleteTaskRow(id)})
    /\ deletedWhileToggling' = IF id \in IdsOf(timers) THEN deletedWhileToggling \cup {id}
                               ELSE deletedWhileToggling
    /\ UNCHANGED <<chatHistory, settings, defaultTasks, defaultChat, defaultSettings,
                   cloudVars, timers, modalVars, relayVars, appliedTheme, envVars,
                   initialized, historyVars, replacedWhileToggling>>

\* handleTaskClick on a delete button -> deleteTask
HandleDeleteClick ==
    /\ initialized
    /\ Event
    /\ \E id \in RenderedIds : deleteTask(id)

ToggleThemeSettingsOnly ==
    /\ lastOp' = "toggleTheme"
    /\ effects' = <<"applyTheme", "save">>
    /\ initialized
    /\ Event
    /\ LET newTheme == IF settings.theme = "light" THEN "dark" ELSE "light"
       IN  /\ settings' = [settings EXCEPT !.theme = newTheme]
           /\ defaultSettings' = IF "settings" \in aliased THEN settings' ELSE defaultSettings
           /\ appliedTheme' = newTheme
           /\ localStore' = save(<<>>, <<>>, settings')
           /\ cloudOps' = Sent({UpsertSettings(settings')})
    /\ UNCHANGED <<tasks, chatHistory, defaultTasks, defaultChat, aliased, cloudVars, timers,
                   modalVars,
                   relayVars, recommended, taskGroups, envVars, initialized, historyVars, raceVars>>

\* toggleTheme
ToggleTheme ==
    /\ lastOp' = "toggleTheme"
    /\ effects' = <<"applyTheme", "save">>
    /\ initialized
    /\ Event
    /\ LET newTheme == IF settings.theme = "light" THEN "dark" ELSE "light"
       IN  /\ settings' = [settings EXCEPT !.theme = newTheme]
           /\ defaultSettings' = IF "settings" \in aliased THEN settings' ELSE defaultSettings
           /\ appliedTheme' = newTheme
           /\ localStore' = save(tasks, chatHistory, settings')
           /\ cloudOps' = Sent({UpsertSettings(settings')})
    /\ UNCHANGED <<tasks, chatHistory, defaultTasks, defaultChat, aliased, cloudVars, timers,
                   modalVars,
                   relayVars, recommended, taskGroups, envVars, initialized, historyVars, raceVars>>

----------------------------------------------------------------------------
(* app.ts: the conversation *)

\* state.chatHistory.slice(-10)
WindowSize == 10

\* A window that is the whole history.
recentMessagesAll(ch) == ch

recentMessages(ch) ==
    SubSeq(ch, IF Len(ch) > WindowSize THEN Len(ch) - WindowSize + 1 ELSE 1, Len(ch))

\* API.sendChatMessage(recentMessages, state.tasks): the fetch that leaves, with
\* the body it carries (role and content of each message, and the tasks); msg is
\* the user message the call was made for.
relayCall(msg, ch, ts) ==
    [msg      |-> msg,
     messages |-> [k \in 1..Len(recentMessages(ch)) |->
                      [role    |-> recentMessages(ch)[k].role,
                       content |-> recentMessages(ch)[k].content]],
     tasks    |-> StripObjs(ts)]

\* sendMessage up to its await: the user message is appended and saved, the chat
\* controls are disabled and the request leaves.
sendMessage(text) ==
    /\ lastOp' = "sendMessage"
    /\ effects' = saveAndRenderChat
    /\ initialized
    /\ Event
    /\ LET msg == newMessage("user", text, MessageSuffix)
       IN  /\ chatHistory' = Append(chatHistory, msg)
           /\ defaultChat' = Pushed("chatHistory", defaultChat, <<msg>>)
           /\ localStore' = save(tasks, chatHistory', settings)
           /\ chatLoading' = TRUE
           /\ relayCalls' = Append(relayCalls, relayCall(msg, chatHistory', tasks))
           /\ cloudOps' = Sent({InsertChat(msg)})
    /\ UNCHANGED <<tasks, settings, defaultTasks, defaultSettings, aliased, cloudVars, timers,
                   modalVars,
                   domVars, envVars, initialized, historyVars, raceVars>>

\* The send button, or Enter in the chat input: both are disabled while loading.
HandleSend == ~chatLoading /\ sendMessage(UserText)

\* The what-now button: disabled while loading.
HandleWhatNow == ~chatLoading /\ sendMessage(WhatNowText)

\* Ctrl/Cmd+Enter outside a text input (handleGlobalKeyboard).
HandleWhatNowShortcut == sendMessage(WhatNowText)

\* A staging that appends the proposals to the batch that is pending.
stagedBatchMerged(reply) ==
    LET proposedTasks == IF reply.ok THEN extractProposedTasks(reply.toolCalls) ELSE <<>>
    IN  IF Len(proposedTasks) > 0
        THEN <<pendingProposedTasks \o proposedTasks, TRUE,
               proposedChecks \o [i \in 1..Len(proposedTasks) |-> TRUE]>>
        ELSE <<pendingProposedTasks, taskModalOpen, proposedChecks>>

\* What the continuation of sendMessage stages from a decoded reply: the pending
\* batch, the modal and its checkboxes.
stagedBatch(reply) ==
    LET proposedTasks == IF reply.ok THEN extractProposedTasks(reply.toolCalls) ELSE <<>>
    IN  IF Len(proposedTasks) > 0
        THEN <<proposedTasks, TRUE, [i \in 1..Len(proposedTasks) |-> TRUE]>>
        ELSE <<pendingProposedTasks, taskModalOpen, proposedChecks>>

\* A continuation whose catch block appends nothing.
replyMessagesSilentCatch(reply) ==
    IF ~reply.ok THEN <<>>
    ELSE IF reply.message # NoText THEN <<newMessage("assistant", reply.message, MessageSuffix)>>
    ELSE <<>>

\* The assistant messages the continuation of sendMessage appends for a reply.
replyMessages(reply) ==
    IF ~reply.ok THEN <<newMessage("assistant", FallbackText, MessageSuffix)>>
    ELSE IF reply.message # NoText THEN <<newMessage("assistant", reply.message, MessageSuffix)>>
    ELSE <<>>

\* A continuation that adds the proposals it decodes instead of staging them.
sendMessageContinuesAutoAdd(i, reply) ==
    /\ lastOp' = "reply"
    /\ effects' = IF replyMessages(reply) = <<>> THEN <<>> ELSE saveAndRenderChat
    /\ LET rec   == IF reply.ok THEN extractRecommendation(reply.toolCalls) ELSE NoId
           msgs  == replyMessages(reply)
           batch == IF reply.ok THEN extractProposedTasks(reply.toolCalls) ELSE <<>>
           added == [k \in 1..Len(batch) |->
                        newTask(FreshObjs(LiveObjs, Len(batch))[k], batch[k],
                                FreshSuffix(TaskIds, now) + k - 1)]
       IN  /\ relayCalls' = SubSeq(relayCalls, 1, i - 1) \o SubSeq(relayCalls, i + 1, Len(relayCalls))
           /\ chatLoading' = FALSE
           /\ tasks' = tasks \o added
           /\ defaultTasks' = Pushed("tasks", defaultTasks, added)
           /\ taskGroups' = groupTasksByDate(tasks', now, tz)
           /\ recommended' = IF rec = NoId THEN recommended
                             ELSE IF rec \in RenderedIds THEN rec ELSE NoId
           /\ chatHistory' = chatHistory \o msgs
           /\ defaultChat' = Pushed("chatHistory", defaultChat, msgs)
           /\ localStore' = IF msgs = <<>> /\ added = <<>> THEN localStore
                            ELSE save(tasks', chatHistory', settings)
           /\ cloudOps' = Sent({InsertChat(m) : m \in Range(msgs)})
    /\ UNCHANGED <<settings, defaultSettings, aliased, cloudVars, timers, modalVars,
                   appliedTheme, envVars, initialized, events, historyVars, raceVars>>

\* sendMessage after its await, for the i-th outstanding call: the reply arrives
\* (try block) or the call throws (catch block).
sendMessageContinues(i, reply) ==
    /\ lastOp' = "reply"
    /\ effects' = IF replyMessages(reply) = <<>> THEN <<>> ELSE saveAndRenderChat
    /\ LET rec  == IF reply.ok THEN extractRecommendation(reply.toolCalls) ELSE NoId
           msgs == replyMessages(reply)
       IN  /\ relayCalls' = SubSeq(relayCalls, 1, i - 1) \o SubSeq(relayCalls, i + 1, Len(relayCalls))
           /\ chatLoading' = FALSE
           /\ pendingProposedTasks' = stagedBatch(reply)[1]
           /\ taskModalOpen' = stagedBatch(reply)[2]
           /\ proposedChecks' = stagedBatch(reply)[3]
           /\ recommended' = IF rec = NoId THEN recommended
                             ELSE IF rec \in RenderedIds THEN rec ELSE NoId
           /\ chatHistory' = chatHistory \o msgs
           /\ defaultChat' = Pushed("chatHistory", defaultChat, msgs)
           /\ localStore' = IF msgs = <<>> THEN localStore
                            ELSE save(tasks, chatHistory', settings)
           /\ cloudOps' = Sent({InsertChat(m) : m \in Range(msgs)})
    /\ UNCHANGED <<tasks, settings, defaultTasks, defaultSettings, aliased, cloudVars, timers,
                   appliedTheme, taskGroups, envVars, initialized, events, historyVars, raceVars>>

RelayReplyArrives ==
    \E i \in 1..Len(relayCalls), reply \in Replies(RenderedIds) :
        sendMessageContinues(i, reply)

\* The user checks or unchecks a proposal in the modal.
ClickProposedCheckbox ==
    /\ lastOp' = "check"
    /\ effects' = <<>>
    /\ taskModalOpen
    /\ Event
    /\ \E i \in 1..Len(proposedChecks) :
          proposedChecks' = [proposedChecks EXCEPT ![i] = ~proposedChecks[i]]
    /\ UNCHANGED <<stateVars, defaultVars, localStore, cloudVars, cloudOps, timers,
                   pendingProposedTasks, taskModalOpen, relayVars, domVars, envVars, initialized, historyVars, raceVars>>

\* A selection that ignores the checkboxes.
getSelectedProposedTasksAll(proposedTasks) == proposedTasks

\* UI.getSelectedProposedTasks: the proposals whose checkbox is checked.
getSelectedProposedTasks(proposedTasks) ==
    LET idx == {i \in 1..Len(proposedChecks) : proposedChecks[i] /\ i <= Len(proposedTasks)}
        RECURSIVE pick(_)
        pick(i) == IF i > Len(proposedChecks) THEN <<>>
                   ELSE (IF i \in idx THEN <<proposedTasks[i]>> ELSE <<>>) \o pick(i + 1)
    IN  pick(1)

\* A confirmation that passes only title and category on to addTask.
addedTasksUndated(selected, rs) ==
    LET objs == FreshObjs(LiveObjs, Len(selected))
    IN  [i \in 1..Len(selected) |->
            newTask(objs[i], [selected[i] EXCEPT !.dueDate = NoDate, !.dueTime = NoTime], rs[i])]

\* The Tasks addTask builds for the selected proposals, one call after the other.
addedTasks(selected, rs) ==
    LET objs == FreshObjs(LiveObjs, Len(selected))
    IN  [i \in 1..Len(selected) |-> newTask(objs[i], selected[i], rs[i])]

\* confirmProposedTasks (the modal's confirm button)
ConfirmProposedTasks ==
    /\ lastOp' = "confirm"
    /\ effects' = LET n == Len(getSelectedProposedTasks(pendingProposedTasks))
                  IN  [k \in 1..(2 * n) |-> saveAndRender[2 - (k % 2)]]
                      \o (IF n > 0 THEN saveAndRenderChat ELSE <<>>)
    /\ taskModalOpen
    /\ Event
    /\ LET selected == getSelectedProposedTasks(pendingProposedTasks)
           n        == Len(selected)
       IN  /\ \E rs \in RandSuffixSeqs(TaskIds, now, n) :
                 LET added == addedTasks(selected, rs)
                     msgs  == IF n > 0
                              THEN <<newMessage("assistant", AddedText(n), MessageSuffix)>>
                              ELSE <<>>
                 IN  /\ tasks' = tasks \o added
                     /\ defaultTasks' = Pushed("tasks", defaultTasks, added)
                     /\ chatHistory' = chatHistory \o msgs
                     /\ defaultChat' = Pushed("chatHistory", defaultChat, msgs)
                     /\ localStore' = IF n > 0 THEN save(tasks', chatHistory', settings)
                                      ELSE localStore
                     /\ taskGroups' = IF n > 0 THEN groupTasksByDate(tasks', now, tz)
                                      ELSE taskGroups
                     /\ recommended' = IF n > 0 THEN NoId ELSE recommended
                     /\ cloudOps' = Sent({UpsertTask(x) : x \in Range(added)}
                                         \cup {InsertChat(m) : m \in Range(msgs)})
    /\ pendingProposedTasks' = <<>>
    /\ taskModalOpen' = FALSE
    /\ proposedChecks' = <<>>
    /\ UNCHANGED <<settings, defaultSettings, aliased, cloudVars, timers, relayVars, appliedTheme,
                   envVars, initialized, historyVars, raceVars>>

\* A cancel that hides the modal and keeps the batch.
CancelKeepsBatch ==
    /\ lastOp' = "cancel"
    /\ effects' = <<>>
    /\ taskModalOpen
    /\ Event
    /\ taskModalOpen' = FALSE
    /\ proposedChecks' = <<>>
    /\ UNCHANGED <<stateVars, defaultVars, localStore, cloudVars, cloudOps, timers, relayVars,
                   domVars, envVars, initialized, historyVars, raceVars, pendingProposedTasks>>

\* cancelProposedTasks (the modal's cancel button, or Escape while the modal is open)
CancelProposedTasks ==
    /\ lastOp' = "cancel"
    /\ effects' = <<>>
    /\ taskModalOpen
    /\ Event
    /\ pendingProposedTasks' = <<>>
    /\ taskModalOpen' = FALSE
    /\ proposedChecks' = <<>>
    /\ UNCHANGED <<stateVars, defaultVars, localStore, cloudVars, cloudOps, timers, relayVars,
                   domVars, envVars, initialized, historyVars, raceVars>>

----------------------------------------------------------------------------
(* app.ts: handleAuthChange, with db.ts: migrateLocalDataToCloud and loadUserData *)

\* The objects that outlive a replacement of state.
KeptObjs == ObjsOf(defaultTasks) \cup ObjsOf(timers)

\* A replacement that keeps the tasks and the messages in memory and puts the
\* loaded ones after them.
StateMerged(data) ==
    /\ tasks' = tasks \o data.tasks
    /\ chatHistory' = chatHistory \o data.chatHistory
    /\ settings' = data.settings
    /\ aliased' = data.aliased
    /\ taskGroups' = groupTasksByDate(tasks', now, tz)
    /\ recommended' = NoId

\* state = <loaded data>, then renderTasks and renderChatMessages.
StateReplaced(data) ==
    /\ tasks' = data.tasks
    /\ chatHistory' = data.chatHistory
    /\ settings' = data.settings
    /\ aliased' = data.aliased
    /\ taskGroups' = groupTasksByDate(tasks', now, tz)
    /\ recommended' = NoId

\* The auth listener reports the signed-in user, or none.  Signed out, the state
\* is loaded from the local store at once; signed in, the call first reads the
\* local store and asks the hosted store whether the user has tasks there.
HandleAuthChange ==
    /\ lastOp' = "authChange"
    /\ initialized
    /\ Event
    /\ \E user \in {NoUser, TheUser} :
          /\ currentUser' = user
          /\ IF user = NoUser
             THEN /\ StateReplaced(load(localStore, KeptObjs))
                  /\ effects' = <<"renderTasks", "renderChat">>
                  /\ replacedWhileToggling' = replacedWhileToggling \cup IdsOf(timers)
                  /\ UNCHANGED authRun
             ELSE /\ authRun = NoRun
                  /\ LET localData == load(localStore, KeptObjs)
                     IN  authRun' = << [stage |-> "migrate",
                                        localData |-> [tasks |-> StripObjs(localData.tasks),
                                                       chatHistory |-> localData.chatHistory,
                                                       settings |-> localData.settings]] >>
                  /\ effects' = <<>>
                  /\ UNCHANGED <<stateVars, aliased, taskGroups, recommended,
                                 replacedWhileToggling>>
    /\ UNCHANGED <<defaultTasks, defaultChat, defaultSettings, localStore, cloudTasks,
                   cloudChat, cloudSettings, cloudOps, timers, modalVars, relayVars,
                   appliedTheme, envVars, initialized, historyVars, deletedWhileToggling>>

\* The requests of a migration, in the order migrateLocalDataToCloud awaits them.
migrationOps(localData) ==
    [i \in 1..Len(localData.tasks) |-> UpsertTask(localData.tasks[i])]
    \o [i \in 1..Len(localData.chatHistory) |-> InsertChat(localData.chatHistory[i])]
    \o <<UpsertSettings(localData.settings)>>

\* migrateLocalDataToCloud after its first await: the requests it sends.  Nothing
\* is sent when the check finds a task row of the user; a check that fails finds
\* none.  Each write returns at once when the user has signed out meanwhile.
migrationWrites(localData, checkOk) ==
    IF (checkOk /\ cloudTasks # {}) \/ currentUser = NoUser THEN <<>>
    ELSE migrationOps(localData)

\* The requests among ops that the hosted store carries out; the others fail and
\* are logged.
Carried(ops, okSet) ==
    LET RECURSIVE pick(_)
        pick(i) == IF i > Len(ops) THEN <<>>
                   ELSE (IF i \in okSet THEN <<ops[i]>> ELSE <<>>) \o pick(i + 1)
    IN  pick(1)

AuthMigrates ==
    /\ lastOp' = "migrate"
    /\ effects' = <<>>
    /\ authRun # NoRun
    /\ authRun[1].stage = "migrate"
    /\ \E checkOk \in BOOLEAN :
          LET ops == migrationWrites(authRun[1].localData, checkOk)
          IN  /\ migrationRuns' = IF ops = <<>> THEN migrationRuns
                                  ELSE Append(migrationRuns, ops)
              /\ \E okSet \in SUBSET (1..Len(ops)) :
                    LET after == tablesAfterAll([tasks |-> cloudTasks, chat |-> cloudChat,
                                                 settings |-> cloudSettings],
                                                Carried(ops, okSet))
                    IN  /\ cloudTasks' = after.tasks
                        /\ cloudChat' = after.chat
                        /\ cloudSettings' = after.settings
    /\ authRun' = << [authRun[1] EXCEPT !.stage = "load"] >>
    /\ UNCHANGED <<stateVars, defaultVars, localStore, currentUser, cloudOps, timers, modalVars,
                   relayVars, domVars, envVars, initialized, events, toggleRequests,
                   detachedToggles, completedFlips, flipSaves, raceVars>>

\* A loadUserData whose catch block returns an empty state.
loadUserDataNoFallback(queriesOk, settingsOk, taskRows, chatRows) ==
    IF currentUser = NoUser THEN load(localStore, KeptObjs)
    ELSE IF ~queriesOk
    THEN [tasks |-> <<>>, chatHistory |-> <<>>, settings |-> [theme |-> "light"],
          aliased |-> {}]
    ELSE [tasks |-> Revive(taskRows, KeptObjs),
          chatHistory |-> chatRows,
          settings |-> IF settingsOk /\ cloudSettings # NoSettings
                       THEN [theme |-> cloudSettings[1].theme] ELSE [theme |-> "light"],
          aliased |-> {}]

\* loadUserData: the rows of the user as an AppState, or Storage.load() when no
\* user is signed in or the tasks or chat query fails.
loadUserData(queriesOk, settingsOk, taskRows, chatRows) ==
    IF currentUser = NoUser \/ ~queriesOk THEN load(localStore, KeptObjs)
    ELSE [tasks |-> Revive(taskRows, KeptObjs),
          chatHistory |-> chatRows,
          settings |-> IF settingsOk /\ cloudSettings # NoSettings
                       THEN [theme |-> cloudSettings[1].theme] ELSE [theme |-> "light"],
          aliased |-> {}]

\* handleAuthChange after loadUserData, for one outcome of its queries: the loaded
\* data replaces state, is rendered and is saved to the local store.
handleAuthChangeLoads(queriesOk, settingsOk, taskRows, chatRows) ==
    /\ lastOp' = "authLoad"
    /\ effects' = <<"applyTheme", "renderTasks", "renderChat", "save">>
    /\ authRun # NoRun
    /\ authRun[1].stage = "load"
    /\ StateReplaced(loadUserData(queriesOk, settingsOk, taskRows, chatRows))
    /\ appliedTheme' = settings'.theme
    /\ localStore' = save(tasks', chatHistory', settings')
    /\ authRun' = NoRun
    /\ replacedWhileToggling' = replacedWhileToggling \cup IdsOf(timers)
    /\ UNCHANGED <<defaultTasks, defaultChat, defaultSettings, currentUser, cloudTasks,
                   cloudChat, cloudSettings, cloudOps, timers, modalVars, relayVars, envVars,
                   initialized, events, historyVars, deletedWhileToggling>>

AuthLoads ==
    \E queriesOk, settingsOk \in BOOLEAN,
       taskRows \in Ordered(cloudTasks, "createdAt"),
       chatRows \in Ordered(cloudChat, "timestamp") :
        handleAuthChangeLoads(queriesOk, settingsOk, taskRows, chatRows)

----------------------------------------------------------------------------
(* The environment *)

\* Time passes.
Tick ==
    /\ lastOp' = "tick"
    /\ effects' = <<>>
    /\ Event
    /\ now' = now + 1
    /\ UNCHANGED <<stateVars, defaultVars, localStore, cloudVars, cloudOps, timers, modalVars, relayVars, domVars,
                   tz, initialized, historyVars, raceVars>>

----------------------------------------------------------------------------
(* The specifications *)

\* Module load: let state = Storage.load(), pendingProposedTasks = [], nothing rendered.
InitWith(store, t, offset) ==
    /\ now = t
    /\ tz = offset
    /\ localStore = store
    /\ defaultTasks = <<>>
    /\ defaultChat = <<>>
    /\ defaultSettings = [theme |-> "light"]
    /\ tasks = IF store = NoRecord THEN <<>> ELSE Revive(store[1].tasks, {})
    /\ chatHistory = IF store = NoRecord THEN <<>> ELSE store[1].chatHistory
    /\ settings = IF store = NoRecord THEN [theme |-> "light"] ELSE store[1].settings
    /\ aliased = IF store = NoRecord THEN AllFields ELSE {}
    /\ currentUser = NoUser
    /\ cloudTasks = {}
    /\ cloudChat = {}
    /\ cloudSettings = NoSettings
    /\ cloudOps = {}
    /\ authRun = NoRun
    /\ timers = <<>>
    /\ pendingProposedTasks = <<>>
    /\ taskModalOpen = FALSE
    /\ proposedChecks = <<>>
    /\ chatLoading = FALSE
    /\ relayCalls = <<>>
    /\ recommended = NoId
    /\ appliedTheme = "light"
    /\ taskGroups = EmptyGroups
    /\ initialized = FALSE
    /\ events = 0
    /\ lastOp = "load"
    /\ effects = <<>>
    /\ toggleRequests = 0
    /\ detachedToggles = 0
    /\ completedFlips = 0
    /\ flipSaves = 0
    /\ migrationRuns = <<>>
    /\ deletedWhileToggling = {}
    /\ replacedWhileToggling = {}

\* A first visit: nothing stored.
Init == InitWith(NoRecord, SessionStart, SessionTz)

Next ==
    \/ AppInit
    \/ HandleAddTaskSubmit
    \/ HandleCheckboxClick
    \/ CompletionTimerFires
    \/ HandleDeleteClick
    \/ ToggleTheme
    \/ HandleSend
    \/ HandleWhatNow
    \/ HandleWhatNowShortcut
    \/ RelayReplyArrives
    \/ ClickProposedCheckbox
    \/ ConfirmProposedTasks
    \/ CancelProposedTasks
    \/ HandleAuthChange
    \/ AuthMigrates
    \/ AuthLoads
    \/ CloudOpCompletes
    \/ Tick

Spec == Init /\ [][Next]_vars

\* The page is opened on a stored task list, at some instant in some time zone,
\* and init() renders it.
InitGroup ==
    \E t \in Nows, offset \in TzOffsets :
        \E ts \in GroupInputs(t, offset) :
            InitWith(save(ts, <<>>, [theme |-> "light"]), t, offset)

NextGroup == AppInit

SpecGroup == InitGroup /\ [][NextGroup]_vars

\* Storage.clear(), or the browser's site data being cleared: the record is gone.
StorageCleared ==
    /\ lastOp' = "clear"
    /\ effects' = <<>>
    /\ initialized
    /\ Event
    /\ localStore # NoRecord
    /\ localStore' = NoRecord
    /\ UNCHANGED <<stateVars, defaultVars, cloudVars, cloudOps, timers, modalVars, relayVars,
                   domVars, envVars, initialized, historyVars, raceVars>>

\* A session in which the stored record can also disappear.
NextLoad == Next \/ StorageCleared

SpecLoad == Init /\ [][NextLoad]_vars

\* The ids deleteTask is called with: two that tasks of the input can carry and
\* one that none of them carries.
HeldIds == {<<1, 1>>, <<2, 1>>}
DeleteIds == HeldIds \cup {<<3, 1>>}

\* The task lists deleteTask is applied to; two tasks may carry the same id.
DeleteInputs ==
    UNION {{ [i \in 1..n |-> MkTask(i, f[i][1], "t", NoDate, NoTime, "life", f[i][2], i)] :
               f \in [1..n -> HeldIds \X BOOLEAN] } :
           n \in 0..MaxDeleteTasks}

\* The page is opened on a stored task list and init() renders it.
InitDelete ==
    \E ts \in DeleteInputs :
        InitWith(save(ts, <<>>, [theme |-> "light"]), SessionStart, SessionTz)

\* deleteTask is called with any of the ids.
DeleteCall ==
    /\ initialized
    /\ Event
    /\ \E id \in DeleteIds : deleteTask(id)

NextDelete == AppInit \/ DeleteCall

SpecDelete == InitDelete /\ [][NextDelete]_vars

\* toggleTask is called with any of the ids.
ToggleCall ==
    /\ initialized
    /\ Event
    /\ \E id \in DeleteIds : toggleTask(id)

\* A page opened on a stored task list, on which tasks are toggled and the
\* timers of the toggles fire.
NextToggle == AppInit \/ ToggleCall \/ CompletionTimerFires

SpecToggle == InitDelete /\ [][NextToggle]_vars

\* Two tasks of an earlier session, as the user's hosted rows hold them.
SyncedTasks ==
    [i \in 1..2 |-> MkTask(0, generateId(SessionStart - 1, i), "t", NoDate, NoTime, "life",
                           FALSE, SessionStart - 1)]

\* A page on which handleAuthChange has loaded the signed-in user's data: memory,
\* the local record and the hosted store hold the same tasks.
InitSignedIn ==
    /\ now = SessionStart
    /\ tz = SessionTz
    /\ localStore = save(SyncedTasks, <<>>, [theme |-> "light"])
    /\ defaultTasks = <<>>
    /\ defaultChat = <<>>
    /\ defaultSettings = [theme |-> "light"]
    /\ tasks = Revive(SyncedTasks, {})
    /\ chatHistory = <<>>
    /\ settings = [theme |-> "light"]
    /\ aliased = {}
    /\ currentUser = TheUser
    /\ cloudTasks = Range(SyncedTasks)
    /\ cloudChat = {}
    /\ cloudSettings = <<[theme |-> "light"]>>
    /\ cloudOps = {}
    /\ authRun = NoRun
    /\ timers = <<>>
    /\ pendingProposedTasks = <<>>
    /\ taskModalOpen = FALSE
    /\ proposedChecks = <<>>
    /\ chatLoading = FALSE
    /\ relayCalls = <<>>
    /\ recommended = NoId
    /\ appliedTheme = "light"
    /\ taskGroups = groupTasksByDate(tasks, now, tz)
    /\ initialized = TRUE
    /\ events = 0
    /\ lastOp = "authLoad"
    /\ effects = <<"applyTheme", "renderTasks", "renderChat", "save">>
    /\ toggleRequests = 0
    /\ detachedToggles = 0
    /\ completedFlips = 0
    /\ flipSaves = 0
    /\ migrationRuns = <<>>
    /\ deletedWhileToggling = {}
    /\ replacedWhileToggling = {}

\* Toggles, their timers and deletions of a signed-in user, on a hosted store
\* that carries out every write.
NextSignedIn ==
    \/ HandleCheckboxClick
    \/ CompletionTimerFires
    \/ HandleDeleteClick
    \/ CloudOpSucceeds

SpecSignedIn == InitSignedIn /\ [][NextSignedIn]_vars

\* The chat histories a page can be opened on: messages of an earlier session,
\* the user's and the assistant's in turn.
ChatInputs ==
    { [k \in 1..n |-> MkMessage(generateId(SessionStart - 1, k),
                                IF k % 2 = 1 THEN "user" ELSE "assistant",
                                <<"earlier", k>>, SessionStart - 1)] :
        n \in 0..MaxStoredChat }

InitWindow ==
    \E ch \in ChatInputs :
        InitWith(save(<<>>, ch, [theme |-> "light"]), SessionStart, SessionTz)

\* A conversation on a stored chat history, with tasks added meanwhile.
NextWindow ==
    \/ AppInit
    \/ HandleAddTaskSubmit
    \/ HandleSend
    \/ HandleWhatNow
    \/ HandleWhatNowShortcut
    \/ RelayReplyArrives
    \/ Tick

SpecWindow == InitWindow /\ [][NextWindow]_vars

----------------------------------------------------------------------------
(* Properties of the grouping *)

Today == LocalDate(now, tz)

InBucket(x, k) == x \in Range(taskGroups[k])

OnlyInBucket(x, k) == InBucket(x, k) /\ \A k2 \in GroupKeys \ {k} : ~InBucket(x, k2)

Incomplete == {x \in Range(tasks) : ~x.completed}

\* C1: the four buckets are pairwise disjoint and together hold every incomplete
\* task of the input exactly once, and nothing else.
C1_Partition ==
    initialized =>
        /\ \A k1, k2 \in GroupKeys :
              k1 # k2 => Range(taskGroups[k1]) \cap Range(taskGroups[k2]) = {}
        /\ Range(AllGrouped) = Incomplete
        /\ \A x \in Range(tasks) :
              Count(AllGrouped, x) = (IF x.completed THEN 0 ELSE Count(tasks, x))

C1_Witness ==
    /\ initialized
    /\ Len(tasks) = 2
    /\ taskGroups["thisWeek"] = <<tasks[2]>>
    /\ taskGroups["later"] = <<tasks[1]>>
    /\ tasks[1].dueDate # NoDate

\* C2: an incomplete task whose dueDate is the current local calendar day is in
\* TODAY and in no other bucket, whatever its dueTime, the time of day and the
\* time-zone offset.
C2_DueTodayInToday ==
    initialized =>
        \A x \in Incomplete : x.dueDate = <<Today>> => OnlyInBucket(x, "today")

\* C3: an incomplete task is in THIS WEEK exactly when its dueDate is strictly
\* after current day + 1 and on or before current day + 7; a task due tomorrow is
\* in TOMORROW.
C3_ThisWeekWindow ==
    initialized =>
        \A x \in Incomplete :
            /\ InBucket(x, "thisWeek") <=>
                  (x.dueDate # NoDate /\ x.dueDate[1] > Today + 1 /\ x.dueDate[1] <= Today + 7)
            /\ x.dueDate = <<Today + 7>> => OnlyInBucket(x, "thisWeek")
            /\ x.dueDate = <<Today + 1>> => OnlyInBucket(x, "tomorrow")

\* C4: an incomplete task is in LATER exactly when its dueDate is null, before
\* the current day, or more than 7 days after it.
C4_LaterIsTheRest ==
    initialized =>
        \A x \in Incomplete :
            InBucket(x, "later") <=>
                (x.dueDate = NoDate \/ x.dueDate[1] < Today \/ x.dueDate[1] > Today + 7)

\* C5: in every bucket no task with a dueTime comes after a task without one,
\* and the tasks with a dueTime are in ascending dueTime order.
C5_TimedFirstAscending ==
    initialized =>
        \A k \in GroupKeys : \A i, j \in 1..Len(taskGroups[k]) :
            i < j =>
                /\ taskGroups[k][j].dueTime # NoTime => taskGroups[k][i].dueTime # NoTime
                /\ (taskGroups[k][i].dueTime # NoTime /\ taskGroups[k][j].dueTime # NoTime)
                      => TimeValue(taskGroups[k][i].dueTime) <= TimeValue(taskGroups[k][j].dueTime)

C5_Witness ==
    /\ initialized
    /\ \E k \in GroupKeys :
          /\ Len(taskGroups[k]) = 2
          /\ taskGroups[k][1] = tasks[2]
          /\ taskGroups[k][1].dueTime # NoTime
          /\ taskGroups[k][1].createdAt > taskGroups[k][2].createdAt

\* C6: two tasks of one bucket that are equal on the primary key (the same
\* dueTime, or both without one) are ordered by createdAt, the earlier first.
C6_TiesByCreatedAt ==
    initialized =>
        \A k \in GroupKeys : \A i, j \in 1..Len(taskGroups[k]) :
            (i < j /\ taskGroups[k][i].dueTime = taskGroups[k][j].dueTime)
                => taskGroups[k][i].createdAt <= taskGroups[k][j].createdAt

\* C7: no completed task appears in any bucket.
C7_NoCompletedGrouped ==
    initialized => \A k \in GroupKeys : \A x \in Range(taskGroups[k]) : ~x.completed

C7_Witness ==
    /\ initialized
    /\ \E x \in Range(tasks) : x.completed /\ x.dueDate = <<Today>> /\ x.dueTime # NoTime
    /\ \E x \in Range(tasks) : ~x.completed
    /\ Len(AllGrouped) = 1

----------------------------------------------------------------------------
(* Properties of the controller *)

\* C8: once no animation timer is pending, every toggle request whose task is
\* still in the collection has flipped the task's completed flag exactly once and
\* has saved exactly once, whatever the user did during the delay.
C8_ExactlyOncePerToggle ==
    timers = <<>> =>
        /\ completedFlips = toggleRequests - detachedToggles
        /\ flipSaves = toggleRequests - detachedToggles

StoredTasks == IF localStore = NoRecord THEN <<>> ELSE localStore[1].tasks

GainsTask == ObjsOf(tasks') \ ObjsOf(tasks) # {}

\* C9: the step in which a relay reply arrives leaves the task collection and
\* the tasks of the persisted record as they are, whatever the reply proposes;
\* the task collection gains a task only in a step of the add-task form, of
\* confirmProposedTasks (and then only the selected proposals, in order), or of
\* an auth-change load that replaces the state.
C9_ProposalsNeverAutoApplied ==
    [][ /\ Len(relayCalls') < Len(relayCalls) =>
              tasks' = tasks /\ StoredTasks' = StoredTasks
        /\ GainsTask =>
              HandleAddTaskSubmit \/ ConfirmProposedTasks \/ HandleAuthChange \/ AuthLoads
        /\ ConfirmProposedTasks =>
              LET selected == getSelectedProposedTasks(pendingProposedTasks)
              IN  /\ Len(tasks') = Len(tasks) + Len(selected)
                  /\ \A k \in 1..Len(selected) :
                        tasks'[Len(tasks) + k].title = selected[k].title
      ]_vars

C9_Witness ==
    /\ Len(pendingProposedTasks) = 2
    /\ taskModalOpen
    /\ Len(tasks) = 1
    /\ StoredTasks = StripObjs(tasks)
    /\ \A k \in 1..2 : tasks[1].title # pendingProposedTasks[k].title

\* C10: a sendMessage call appends the user's message when it is made; when its
\* relay call throws, the continuation appends exactly one assistant message
\* with the fallback text after it and leaves the task collection, the settings
\* and the pending proposed batch unchanged.
C10_RelayFailureFallback ==
    [][ /\ Len(relayCalls') > Len(relayCalls) =>
              /\ relayCalls' = Append(relayCalls, relayCall(chatHistory'[Len(chatHistory')],
                                                            chatHistory', tasks'))
              /\ chatHistory' = Append(chatHistory, relayCalls'[Len(relayCalls')].msg)
              /\ relayCalls'[Len(relayCalls')].msg.role = "user"
        /\ (\E i \in 1..Len(relayCalls) : sendMessageContinues(i, FailedReply)) =>
              /\ Len(chatHistory') = Len(chatHistory) + 1
              /\ SubSeq(chatHistory', 1, Len(chatHistory)) = chatHistory
              /\ chatHistory'[Len(chatHistory')].role = "assistant"
              /\ chatHistory'[Len(chatHistory')].content = FallbackText
              /\ tasks' = tasks
              /\ settings' = settings
              /\ pendingProposedTasks' = pendingProposedTasks
              /\ StoredTasks' = StoredTasks
      ]_vars

C10_Witness ==
    /\ relayCalls = <<>>
    /\ Len(chatHistory) = 2
    /\ chatHistory[1].role = "user"
    /\ chatHistory[2].role = "assistant"
    /\ chatHistory[2].content = FallbackText
    /\ tasks # <<>>

----------------------------------------------------------------------------
(* Properties of the task handlers *)

\* C11: deleteTask(id) removes every task that carries id and keeps the other
\* tasks in their order; when no task carries id the collection is unchanged,
\* so that a second deleteTask(id) changes nothing.
C11_DeleteByIdentity ==
    [][ \A id \in DeleteIds :
            deleteTask(id) =>
                /\ id \notin IdsOf(tasks')
                /\ tasks' = SelectSeq(tasks, LAMBDA x : x.id # id)
                /\ id \notin IdsOf(tasks) => tasks' = tasks
      ]_vars

C11_Witness ==
    /\ lastOp = "deleteTask"
    /\ events = 2
    /\ Len(tasks) = 2
    /\ tasks[1].id # tasks[2].id
    /\ Len(StoredTasks) = 2

StoredChat == IF localStore = NoRecord THEN <<>> ELSE localStore[1].chatHistory

NoneChecked == \A i \in 1..Len(proposedChecks) : ~proposedChecks[i]

\* C12: confirmProposedTasks with no checkbox checked leaves the task collection
\* and the chat history, in memory and in the local store, as they are, and
\* leaves the pending batch empty and the modal closed.
C12_ConfirmNothing ==
    [][ (ConfirmProposedTasks /\ NoneChecked) =>
            /\ tasks' = tasks
            /\ chatHistory' = chatHistory
            /\ StoredTasks' = StoredTasks
            /\ StoredChat' = StoredChat
            /\ pendingProposedTasks' = <<>>
            /\ ~taskModalOpen'
      ]_vars

C12_Witness ==
    /\ lastOp = "confirm"
    /\ tasks = <<>>
    /\ pendingProposedTasks = <<>>
    /\ ~taskModalOpen
    /\ chatHistory # <<>>

\* The positions of the checked proposals of the pending batch, and the k-th of them.
CheckedIdx == {i \in 1..Len(pendingProposedTasks) : proposedChecks[i]}

NthChecked(k) == CHOOSE i \in CheckedIdx : Cardinality({j \in CheckedIdx : j < i}) = k - 1

\* C13: confirmProposedTasks appends one new task per checked proposal, in
\* order, with the proposal's title, dueDate, dueTime and category, completed
\* false, createdAt and id generated at this instant on a new object; it adds
\* nothing for an unchecked proposal, keeps the tasks there were, and leaves the
\* pending batch empty and the modal closed.
C13_ConfirmAddsSelected ==
    [][ ConfirmProposedTasks =>
            /\ Len(tasks') = Len(tasks) + Cardinality(CheckedIdx)
            /\ SubSeq(tasks', 1, Len(tasks)) = tasks
            /\ \A k \in 1..Cardinality(CheckedIdx) :
                  LET t == tasks'[Len(tasks) + k]
                      p == pendingProposedTasks[NthChecked(k)]
                  IN  /\ t.title = p.title
                      /\ t.dueDate = p.dueDate
                      /\ t.dueTime = p.dueTime
                      /\ t.category = p.category
                      /\ ~t.completed
                      /\ t.createdAt = now
                      /\ t.id[1] = now
                      /\ t.obj \notin LiveObjs
            /\ pendingProposedTasks' = <<>>
            /\ ~taskModalOpen'
      ]_vars

C13_Witness ==
    /\ lastOp = "confirm"
    /\ Len(tasks) = 1
    /\ tasks[1].title = BatchB[2].title
    /\ tasks[1].dueDate = BatchB[2].dueDate
    /\ pendingProposedTasks = <<>>
    /\ chatHistory[Len(chatHistory)].content = AddedText(1)

\* The proposals a reply carries.
ProposalsOf(reply) == IF reply.ok THEN extractProposedTasks(reply.toolCalls) ELSE <<>>

\* C14: the pending batch changes only when a relay reply arrives, on confirm
\* and on cancel.  A reply with at least one proposal makes exactly its proposals
\* the pending batch, all checked, with the modal open, whether or not a batch
\* was pending; any other reply leaves batch and modal alone; confirm and cancel
\* leave the batch empty and the modal closed.
C14_ProposeConfirmFlow ==
    [][ /\ \A i \in 1..Len(relayCalls), reply \in Replies(RenderedIds) :
              sendMessageContinues(i, reply) =>
                  IF ProposalsOf(reply) # <<>>
                  THEN /\ pendingProposedTasks' = ProposalsOf(reply)
                       /\ taskModalOpen'
                       /\ proposedChecks' = [k \in 1..Len(ProposalsOf(reply)) |-> TRUE]
                  ELSE UNCHANGED modalVars
        /\ (ConfirmProposedTasks \/ CancelProposedTasks) =>
              pendingProposedTasks' = <<>> /\ ~taskModalOpen'
        /\ pendingProposedTasks' # pendingProposedTasks =>
              RelayReplyArrives \/ ConfirmProposedTasks \/ CancelProposedTasks
      ]_vars

C14_Witness ==
    /\ lastOp = "reply"
    /\ events = 2
    /\ pendingProposedTasks = BatchB
    /\ taskModalOpen
    /\ \E k \in 1..Len(chatHistory) : chatHistory[k].content = PlanText

----------------------------------------------------------------------------
(* Properties of the local store *)

C16_LoadDefaultWhenAbsent ==
    localStore = NoRecord =>
        LET loaded == load(localStore, KeptObjs)
        IN  /\ loaded.tasks = <<>>
            /\ loaded.chatHistory = <<>>
            /\ loaded.settings = [theme |-> "light"]

----------------------------------------------------------------------------
(* Invariants of the data model *)

\* C17: no two tasks of the task collection have the same id.
C17_UniqueTaskIds ==
    \A i, j \in 1..Len(tasks) : i # j => tasks[i].id # tasks[j].id

\* C18: in every reachable state every task of the task collection has a
\* non-empty title, whichever path added it.
C18_NonEmptyTitles ==
    \A i \in 1..Len(tasks) : tasks[i].title # ""

Chronological(ch) == \A i, j \in 1..Len(ch) : i < j => ch[i].timestamp <= ch[j].timestamp

\* C19: in every step the chat history keeps every message it had at the same
\* position, gains messages only at the end, and is in non-decreasing order of
\* timestamp.
C19_ChatAppendOnly ==
    [][ /\ Len(chatHistory') >= Len(chatHistory)
        /\ SubSeq(chatHistory', 1, Len(chatHistory)) = chatHistory
        /\ Chronological(chatHistory')
      ]_vars

----------------------------------------------------------------------------
(* Properties of the settings *)

OtherTheme(theme) == IF theme = "light" THEN "dark" ELSE "light"

\* C20: a toggleTheme step turns the theme into the other of light and dark, so
\* that toggling the result again gives the theme it started from, and leaves
\* the rest alone: the task collection and the chat history in memory, the
\* tasks and the chat history of the local store and of the hosted tables, and
\* the request it sends changes no hosted task or chat row when it is carried out.
C20_ToggleThemeFrame ==
    [][ lastOp' = "toggleTheme" =>
          /\ settings.theme \in {"light", "dark"}
          /\ settings' = [settings EXCEPT !.theme = OtherTheme(settings.theme)]
          /\ OtherTheme(settings'.theme) = settings.theme
          /\ tasks' = tasks
          /\ chatHistory' = chatHistory
          /\ StoredTasks' = StoredTasks
          /\ StoredChat' = StoredChat
          /\ cloudTasks' = cloudTasks
          /\ cloudChat' = cloudChat
          /\ \A op \in cloudOps' \ cloudOps :
                /\ tasksTableAfter(cloudTasks', op) = cloudTasks'
                /\ chatTableAfter(cloudChat', op) = cloudChat'
      ]_vars

C20_Witness ==
    /\ lastOp = "toggleTheme"
    /\ settings.theme = "dark"
    /\ Len(tasks) = 1
    /\ Len(StoredTasks) = 1
    /\ Len(chatHistory) = 1
    /\ Len(StoredChat) = 1

----------------------------------------------------------------------------
(* Properties of toggles, timers and the hosted store *)

\* C21: a toggleTask step that finds a task whose completed flag is true leaves
\* that task with completed false in the collection and in the local record,
\* in that same step, starts no timer, and leaves every other task as it was.
C21_UntoggleImmediate ==
    [][ \A id \in DeleteIds :
          LET i == findTask(tasks, id)
          IN  (toggleTask(id) /\ i # 0 /\ tasks[i].completed) =>
                  /\ Len(tasks') = Len(tasks)
                  /\ ~tasks'[i].completed
                  /\ localStore' # NoRecord
                  /\ StoredTasks' = StripObjs(tasks')
                  /\ ~StoredTasks'[i].completed
                  /\ Len(timers') = Len(timers)
                  /\ \A k \in 1..Len(timers) : timers'[k].obj = timers[k].obj
                  /\ \A j \in 1..Len(tasks) : j # i => tasks'[j] = tasks[j]
      ]_vars

C21_Witness ==
    /\ lastOp = "toggleTask"
    /\ completedFlips = 1
    /\ timers = <<>>
    /\ Len(tasks) = 2
    /\ ~tasks[1].completed
    /\ tasks[2].completed
    /\ StoredTasks = StripObjs(tasks)

Saves == {i \in 1..Len(effects) : effects[i] = "save"}

\* C22: in a handler that writes to the local store and renders, a write to the
\* local store comes before every render the handler makes.
C22_PersistThenRender ==
    Saves # {} =>
        \A i \in 1..Len(effects) \ Saves : \E j \in Saves : j < i

HostedRows == cloudTasks \cup cloudChat \cup Range(cloudSettings)

\* C23: a migration sends its writes only when the user has no hosted row and
\* no migration has sent writes before, and the writes it sends are those of
\* every task, every chat message and the settings of the local store.
C23_MigrationOneTime ==
    [][ (lastOp' = "migrate" /\ migrationRuns' # migrationRuns) =>
          /\ HostedRows = {}
          /\ migrationRuns = <<>>
          /\ migrationRuns'[1] = migrationOps(authRun[1].localData)
      ]_vars

\* C24: a step in which a hosted write is carried out or fails, alone or in a
\* migration, leaves the state in memory and the local record as they are; and
\* while a signed-in user's load is awaited, loadUserData with a failed tasks or
\* chat query returns what Storage.load returns, whatever the hosted rows are.
C24_HostedFailureSilent ==
    [][ /\ lastOp' \in {"cloud", "migrate"} =>
              UNCHANGED <<tasks, chatHistory, settings, localStore>>
        /\ (authRun # NoRun /\ currentUser # NoUser) =>
              \A settingsOk \in BOOLEAN, taskRows \in Ordered(cloudTasks, "createdAt"),
                 chatRows \in Ordered(cloudChat, "timestamp") :
                  loadUserData(FALSE, settingsOk, taskRows, chatRows) = load(localStore, KeptObjs)
      ]_vars

C24_Witness ==
    /\ lastOp = "authLoad"
    /\ currentUser = TheUser
    /\ Len(tasks) = 1
    /\ Len(StoredTasks) = 1
    /\ cloudTasks = {}
    /\ cloudOps = {}
    /\ Len(migrationRuns) = 1

----------------------------------------------------------------------------
(* Properties of the relay call *)

\* C25: the call a sendMessage step makes carries the last messages of the chat
\* history as it is after the user message was appended: at most 10 of them, in
\* the order of the history, the last one being that user message, none of them
\* older than the last 10; and it carries the whole task list.
C25_RelayWindow ==
    [][ Len(relayCalls') > Len(relayCalls) =>
          LET call == relayCalls'[Len(relayCalls')]
              sent == call.messages
              h    == chatHistory'
          IN  /\ Len(sent) = IF Len(h) > 10 THEN 10 ELSE Len(h)
              /\ \A k \in 1..Len(sent) :
                    /\ sent[k].role = h[Len(h) - Len(sent) + k].role
                    /\ sent[k].content = h[Len(h) - Len(sent) + k].content
              /\ h[Len(h)] = call.msg
              /\ sent[Len(sent)] = [role |-> "user", content |-> call.msg.content]
              /\ call.tasks = StripObjs(tasks')
      ]_vars

C25_Witness ==
    /\ lastOp = "sendMessage"
    /\ Len(chatHistory) = 12
    /\ Len(relayCalls) = 1
    /\ Len(relayCalls[1].messages) = 10
    /\ relayCalls[1].messages[1].content = <<"earlier", 3>>
    /\ Len(relayCalls[1].tasks) = 1

----------------------------------------------------------------------------
(* Properties of the auth change *)

----------------------------------------------------------------------------
(* Properties of toggles that wait on their timer *)

\* No timer of toggleTask, no hosted write and no auth change is pending.
Quiescent == timers = <<>> /\ cloudOps = {} /\ authRun = NoRun

\* The values of the completed flag of the tasks of an id, in memory, in the local
\* record and, for the signed-in user, in the hosted store.
FlagsOf(id) ==
    {x.completed : x \in {y \in Range(tasks) : y.id = id}}
    \cup {x.completed : x \in {y \in Range(StoredTasks) : y.id = id}}
    \cup (IF currentUser = NoUser THEN {}
          ELSE {x.completed : x \in {y \in cloudTasks : y.id = id}})

\* C28: when nothing is pending any more, a task whose toggle was waiting on
\* its timer while an auth change replaced the state has one value of completed
\* in memory, in the local record and in the hosted store.
C28_ToggleAcrossAuthChange ==
    Quiescent => \A id \in replacedWhileToggling : Cardinality(FlagsOf(id)) <= 1

\* C27: when nothing is pending any more, an id that was deleted while a toggle
\* of it was waiting on its timer is in no task of the collection, of the local
\* record or of the hosted store.
C27_DeletedStaysDeleted ==
    Quiescent =>
        \A id \in deletedWhileToggling :
            /\ id \notin IdsOf(tasks)
            /\ id \notin IdsOf(StoredTasks)
            /\ id \notin {x.id : x \in cloudTasks}

----------------------------------------------------------------------------
(* Properties of the chat controls and the confirmation modal *)

\* C29: while a relay call is outstanding the chat controls are disabled, and
\* at most one relay call is outstanding at a time.
C29_LoadingWhileOutstanding ==
    /\ relayCalls # <<>> => chatLoading
    /\ Len(relayCalls) <= 1

\* C30: the pending proposed batch is non-empty exactly when the confirmation
\* modal is shown.
C30_BatchIffModal ==
    pendingProposedTasks # <<>> <=> taskModalOpen

C30_Witness ==
    /\ lastOp = "cancel"
    /\ ~taskModalOpen
    /\ pendingProposedTasks = <<>>
    /\ proposedChecks = <<>>
    /\ chatHistory # <<>>

====
